---- MODULE Spec2Model ----
(***************************************************************************)
(* The ledger of kckeiks/processor: Account (balance arithmetic with       *)
(* checked Decimal operations), Accounts (the two maps and the five event  *)
(* operations) and Processor::process (the routing of one record).         *)
(*                                                                         *)
(* Decimal values are integers (units of the smallest amount) in the       *)
(* range -DecimalMax..DecimalMax; a checked operation whose result leaves  *)
(* that range yields Overflow, as checked_add/checked_sub yield None.      *)
(***************************************************************************)
EXTENDS Integers, FiniteSets, Sequences, TLC

\* ---------------------------------------------------------------- bounds
\* Decimal::MAX scaled down: the largest magnitude a balance or an amount has.
DecimalMax == 2
\* The number of records of a run.
MaxEvents == 4

\* Client ids (u16) and transaction ids (u32) in play.
Clients == {1, 2}
TxIds == {1, 2}
\* Option<Decimal>: None is the empty sequence, Some(v) is <<v>>.
None == << >>
Some(v) == << v >>

\* ----------------------------------------------------------- record source
\* The largest scale deserialize_amount lets pass.
MaxScale == 4

\* The amount field of a record, as text: empty, or a decimal literal with a
\* sign, digits (mantissa) and a number of fractional digits (scale). One unit
\* of the ledger's integers is 10^-MaxScale.
Empty == [empty |-> TRUE]
AmountFields ==
    [empty : {FALSE}, neg : BOOLEAN, mantissa : 0..(10 * DecimalMax), scale : 0..(MaxScale + 1)]

RECURSIVE Pow10(_)
Pow10(n) == IF n = 0 THEN 1 ELSE 10 * Pow10(n - 1)

\* Decimal::from_str succeeds when the literal's value is in the Decimal range.
from_str_ok(b) ==
    IF b.scale <= MaxScale
    THEN b.mantissa * Pow10(MaxScale - b.scale) <= DecimalMax
    ELSE b.mantissa <= DecimalMax * Pow10(b.scale - MaxScale)

\* Decimal::normalize: trailing zeros stripped, -0 made 0.
RECURSIVE normalize(_)
normalize(d) ==
    IF d.mantissa = 0 THEN [d EXCEPT !.neg = FALSE, !.scale = 0]
    ELSE IF d.scale > 0 /\ d.mantissa % 10 = 0
    THEN normalize([d EXCEPT !.mantissa = d.mantissa \div 10, !.scale = d.scale - 1])
    ELSE d

\* The value of a Decimal of scale <= MaxScale in units.
Units(d) == (IF d.neg THEN 0 - 1 ELSE 1) * d.mantissa * Pow10(MaxScale - d.scale)

\* deserialize_amount: [ok, value], value an Option of the amount in units.
deserialize_amount(buf) ==
    IF buf = Empty THEN [ok |-> TRUE, value |-> None]
    ELSE IF ~from_str_ok(buf) THEN [ok |-> FALSE, value |-> None]
    ELSE LET decimal == normalize(buf)
         IN  IF decimal.scale > MaxScale THEN [ok |-> FALSE, value |-> None]
             ELSE [ok |-> TRUE, value |-> Some(Units(decimal))]

\* Amounts a record can carry: what deserialize_amount yields for some literal.
\* It checks the scale only, so a negative amount and zero are handed on.
Amounts ==
    { deserialize_amount(b).value[1] :
        b \in { f \in AmountFields : deserialize_amount(f).ok } }
NonNegativeAmounts == { a \in Amounts : a >= 0 }

VARIABLES
    inner,         \* Accounts.inner: client id -> Account
    transactions,  \* Accounts.transactions: tx id -> Transaction
    last,          \* the record processed last and what process returned
    prev,          \* the two maps as they were before that record
    owner,         \* history: tx id -> client whose event recorded it
    used,          \* history: tx ids of the Deposit/Withdrawal events before `last`
    steps,         \* the number of records processed
    input,         \* Processor::start: the records reader.read() returned
    pc,            \* Processor::start: "loop", "return" (left early) or "done"
    written        \* Processor::start: the snapshots handed to writer.write

vars == << inner, transactions, last, prev, owner, used, steps, input, pc, written >>
startVars == << input, pc, written >>

\* ------------------------------------------------------- checked Decimal
Fits(x) == x >= 0 - DecimalMax /\ x <= DecimalMax

\* ---------------------------------------------------------------- Account
\* An Account operation works on `&mut self`: it returns the account as the
\* call left it (also when it failed half way) and the call's result.
Account_new(id) ==
    [client |-> id, available |-> 0, held |-> 0, total |-> 0, locked |-> FALSE]

Account_deposit(a, amount) ==
    IF ~Fits(a.available + amount)
    THEN [acct |-> a, res |-> "Overflow"]
    ELSE LET a1 == [a EXCEPT !.available = a.available + amount]
         IN  IF ~Fits(a1.total + amount)
             THEN [acct |-> a1, res |-> "Overflow"]
             ELSE [acct |-> [a1 EXCEPT !.total = a1.total + amount], res |-> "Ok"]

\* Account_hold that adds to held and leaves total alone.
Account_hold_held_only(a, amount) ==
    IF ~Fits(a.held + amount)
    THEN [acct |-> a, res |-> "Overflow"]
    ELSE [acct |-> [a EXCEPT !.held = @ + amount], res |-> "Ok"]

Account_hold(a, amount) ==
    IF ~Fits(a.held + amount)
    THEN [acct |-> a, res |-> "Overflow"]
    ELSE LET a1 == [a EXCEPT !.held = a.held + amount]
         IN  IF ~Fits(a1.total + amount)
             THEN [acct |-> a1, res |-> "Overflow"]
             ELSE [acct |-> [a1 EXCEPT !.total = a1.total + amount], res |-> "Ok"]

\* Account_withdraw without the test of the sign of the new available balance.
Account_withdraw_unchecked(a, amount) ==
    IF ~Fits(a.available - amount)
    THEN [acct |-> a, res |-> "Overflow"]
    ELSE LET a1 == [a EXCEPT !.available = a.available - amount]
         IN  IF ~Fits(a1.total - amount)
             THEN [acct |-> a1, res |-> "Overflow"]
             ELSE [acct |-> [a1 EXCEPT !.total = a1.total - amount], res |-> "Ok"]

Account_withdraw(a, amount) ==
    IF ~Fits(a.available - amount)
    THEN [acct |-> a, res |-> "Overflow"]
    ELSE IF a.available - amount < 0
    THEN [acct |-> a, res |-> "InsufficientFunds"]
    ELSE LET a1 == [a EXCEPT !.available = a.available - amount]
         IN  IF ~Fits(a1.total - amount)
             THEN [acct |-> a1, res |-> "Overflow"]
             ELSE [acct |-> [a1 EXCEPT !.total = a1.total - amount], res |-> "Ok"]

\* Account_withdraw_held that takes the amount from total and leaves held alone.
Account_withdraw_held_total_only(a, amount) ==
    IF ~Fits(a.held - amount)
    THEN [acct |-> a, res |-> "Overflow"]
    ELSE IF a.held - amount < 0
    THEN [acct |-> a, res |-> "InsufficientFunds"]
    ELSE IF ~Fits(a.total - amount)
    THEN [acct |-> a, res |-> "Overflow"]
    ELSE [acct |-> [a EXCEPT !.total = a.total - amount], res |-> "Ok"]

Account_withdraw_held(a, amount) ==
    IF ~Fits(a.held - amount)
    THEN [acct |-> a, res |-> "Overflow"]
    ELSE IF a.held - amount < 0
    THEN [acct |-> a, res |-> "InsufficientFunds"]
    ELSE LET a1 == [a EXCEPT !.held = a.held - amount]
         IN  IF ~Fits(a1.total - amount)
             THEN [acct |-> a1, res |-> "Overflow"]
             ELSE [acct |-> [a1 EXCEPT !.total = a1.total - amount], res |-> "Ok"]

Account_dispute(a, amount) ==
    LET w == Account_withdraw(a, amount)
    IN  IF w.res # "Ok" THEN w ELSE Account_hold(w.acct, amount)

Account_resolve(a, amount) ==
    LET w == Account_withdraw_held(a, amount)
    IN  IF w.res # "Ok" THEN w ELSE Account_deposit(w.acct, amount)

\* Account_chargeback that takes the held funds and does not lock the account.
Account_chargeback_not_locked(a, amount) == Account_withdraw_held(a, amount)

Account_chargeback(a, amount) ==
    LET w == Account_withdraw_held(a, amount)
    IN  IF w.res # "Ok" THEN w
        ELSE [acct |-> [w.acct EXCEPT !.locked = TRUE], res |-> "Ok"]

frozen(a) == a.locked

\* ------------------------------------------------------------ Transaction
Transaction_new(id, amount) == [id |-> id, amount |-> amount, status |-> "Open"]

\* --------------------------------------------------------------- Accounts
\* A ledger value is [inner, transactions]; an Accounts operation returns the
\* ledger after the call and the call's result.
Ledger(i, t) == [inner |-> i, transactions |-> t]

\* account with `insert` in the place of `entry(id).or_insert`: the account of
\* a known client is replaced by a new one.
account_insert(i, id) ==
    IF id \in DOMAIN i THEN [i EXCEPT ![id] = Account_new(id)]
    ELSE i @@ (id :> Account_new(id))

\* self.inner.entry(id).or_insert(Account::new(id)): the map after the call.
account(i, id) == IF id \in DOMAIN i THEN i ELSE i @@ (id :> Account_new(id))

\* self.transaction(tx).is_some()
transaction_is_some(t, tx) == tx \in DOMAIN t

\* self.inner.insert(account.client, account)
update_account(i, a) ==
    IF a.client \in DOMAIN i THEN [i EXCEPT ![a.client] = a] ELSE i @@ (a.client :> a)

\* self.transactions.insert(tx.id, tx)
update_transaction(t, tr) ==
    IF tr.id \in DOMAIN t THEN [t EXCEPT ![tr.id] = tr] ELSE t @@ (tr.id :> tr)

\* The error an `if let Err(Error::InsufficientFunds) = ...` arm catches.
swallowed(res) == res = "InsufficientFunds"

\* Accounts_deposit without the lookup of the transaction id: a Deposit under
\* a recorded id overwrites the record.
Accounts_deposit_no_dedup(l, client, amount, tx) ==
    LET i1 == account(l.inner, client)
        r  == Account_deposit(i1[client], amount)
    IN  IF frozen(i1[client])
        THEN [ledger |-> Ledger(i1, l.transactions), res |-> "Ok"]
        ELSE IF r.res # "Ok"
        THEN [ledger |-> Ledger(i1, l.transactions), res |-> r.res]
        ELSE [ledger |-> Ledger(update_account(i1, r.acct),
                                update_transaction(l.transactions,
                                                   Transaction_new(tx, amount))),
              res |-> "Ok"]

\* Accounts_deposit with the account fetched (and so created) before the
\* transaction id is looked up.
Accounts_deposit_fetch_first(l, client, amount, tx) ==
    LET i1 == account(l.inner, client)
        r  == Account_deposit(i1[client], amount)
    IN  IF transaction_is_some(l.transactions, tx)
        THEN [ledger |-> Ledger(i1, l.transactions), res |-> "TxExists"]
        ELSE IF frozen(i1[client])
        THEN [ledger |-> Ledger(i1, l.transactions), res |-> "Ok"]
        ELSE IF r.res # "Ok"
        THEN [ledger |-> Ledger(i1, l.transactions), res |-> r.res]
        ELSE [ledger |-> Ledger(update_account(i1, r.acct),
                                update_transaction(l.transactions,
                                                   Transaction_new(tx, amount))),
              res |-> "Ok"]

\* Accounts_deposit without the check of the frozen flag.
Accounts_deposit_ignores_freeze(l, client, amount, tx) ==
    IF transaction_is_some(l.transactions, tx)
    THEN [ledger |-> l, res |-> "TxExists"]
    ELSE LET i1 == account(l.inner, client)
             r  == Account_deposit(i1[client], amount)
         IN  IF r.res # "Ok"
             THEN [ledger |-> Ledger(i1, l.transactions), res |-> r.res]
             ELSE [ledger |-> Ledger(update_account(i1, r.acct),
                                     update_transaction(l.transactions,
                                                        Transaction_new(tx, amount))),
                   res |-> "Ok"]

Accounts_deposit(l, client, amount, tx) ==
    IF transaction_is_some(l.transactions, tx)
    THEN [ledger |-> l, res |-> "TxExists"]
    ELSE LET i1 == account(l.inner, client)
             r  == Account_deposit(i1[client], amount)
         IN  IF frozen(i1[client])
             THEN [ledger |-> Ledger(i1, l.transactions), res |-> "Ok"]
             ELSE IF r.res # "Ok"
             THEN [ledger |-> Ledger(i1, l.transactions), res |-> r.res]
             ELSE [ledger |-> Ledger(update_account(i1, r.acct),
                                     update_transaction(l.transactions,
                                                        Transaction_new(tx, amount))),
                   res |-> "Ok"]

\* Accounts_withdraw working on an account it looked up without inserting it:
\* a Withdrawal that fails leaves the map as it was.
Accounts_withdraw_no_insert(l, client, amount, tx) ==
    IF transaction_is_some(l.transactions, tx)
    THEN [ledger |-> l, res |-> "TxExists"]
    ELSE LET i1 == account(l.inner, client)
             r  == Account_withdraw(i1[client], amount)
         IN  IF frozen(i1[client])
             THEN [ledger |-> l, res |-> "Ok"]
             ELSE IF r.res # "Ok"
             THEN [ledger |-> l, res |-> r.res]
             ELSE [ledger |-> Ledger(update_account(i1, r.acct),
                                     update_transaction(l.transactions,
                                                        Transaction_new(tx, amount))),
                   res |-> "Ok"]

\* Accounts_withdraw without the lookup of the transaction id.
Accounts_withdraw_no_dedup(l, client, amount, tx) ==
    LET i1 == account(l.inner, client)
        r  == Account_withdraw(i1[client], amount)
    IN  IF frozen(i1[client])
        THEN [ledger |-> Ledger(i1, l.transactions), res |-> "Ok"]
        ELSE IF r.res # "Ok"
        THEN [ledger |-> Ledger(i1, l.transactions), res |-> r.res]
        ELSE [ledger |-> Ledger(update_account(i1, r.acct),
                                update_transaction(l.transactions,
                                                   Transaction_new(tx, amount))),
              res |-> "Ok"]

Accounts_withdraw(l, client, amount, tx) ==
    IF transaction_is_some(l.transactions, tx)
    THEN [ledger |-> l, res |-> "TxExists"]
    ELSE LET i1 == account(l.inner, client)
             r  == Account_withdraw(i1[client], amount)
         IN  IF frozen(i1[client])
             THEN [ledger |-> Ledger(i1, l.transactions), res |-> "Ok"]
             ELSE IF r.res # "Ok"
             THEN [ledger |-> Ledger(i1, l.transactions), res |-> r.res]
             ELSE [ledger |-> Ledger(update_account(i1, r.acct),
                                     update_transaction(l.transactions,
                                                        Transaction_new(tx, amount))),
                   res |-> "Ok"]

\* dispute_status accepting a Resolved transaction as well, and settle_status
\* accepting an Open one as well.
dispute_status_or_resolved(status) == status \in {"Open", "Resolved"}
settle_status_or_open(status) == status \in {"Open", "Pending"}

\* The status a Dispute acts on, and the status Resolve and Chargeback act on.
dispute_status(status) == status = "Open"
settle_status(status) == status = "Pending"

\* Accounts_dispute handing the failure of the account step on to its caller
\* (`account.dispute(trans.amount)?`) instead of testing it.
Accounts_dispute_propagates(l, client, tx) ==
    IF ~transaction_is_some(l.transactions, tx)
    THEN [ledger |-> l, res |-> "Ok"]
    ELSE LET trans == l.transactions[tx]
             i1 == account(l.inner, client)
             r  == Account_dispute(i1[client], trans.amount)
         IN  IF frozen(i1[client])
             THEN [ledger |-> Ledger(i1, l.transactions), res |-> "Ok"]
             ELSE IF dispute_status(trans.status)
             THEN IF r.res # "Ok"
                  THEN [ledger |-> Ledger(i1, l.transactions), res |-> r.res]
                  ELSE [ledger |-> Ledger(update_account(i1, r.acct),
                                          update_transaction(l.transactions,
                                              [trans EXCEPT !.status = "Pending"])),
                        res |-> "Ok"]
             ELSE [ledger |-> Ledger(update_account(i1, i1[client]), l.transactions),
                   res |-> "Ok"]

Accounts_dispute(l, client, tx) ==
    IF ~transaction_is_some(l.transactions, tx)
    THEN [ledger |-> l, res |-> "Ok"]
    ELSE LET trans == l.transactions[tx]
             i1 == account(l.inner, client)
             r  == Account_dispute(i1[client], trans.amount)
         IN  IF frozen(i1[client])
             THEN [ledger |-> Ledger(i1, l.transactions), res |-> "Ok"]
             ELSE IF dispute_status(trans.status)
             THEN IF swallowed(r.res)
                  THEN [ledger |-> Ledger(i1, l.transactions), res |-> "Ok"]
                  ELSE [ledger |-> Ledger(update_account(i1, r.acct),
                                          update_transaction(l.transactions,
                                              [trans EXCEPT !.status = "Pending"])),
                        res |-> "Ok"]
             ELSE [ledger |-> Ledger(update_account(i1, i1[client]), l.transactions),
                   res |-> "Ok"]

\* Accounts_resolve with the account fetched (and so created) before the
\* transaction is looked up.
Accounts_resolve_fetch_first(l, client, tx) ==
    LET i1 == account(l.inner, client)
    IN  IF ~transaction_is_some(l.transactions, tx)
        THEN [ledger |-> Ledger(i1, l.transactions), res |-> "Ok"]
        ELSE LET trans == l.transactions[tx]
                 r == Account_resolve(i1[client], trans.amount)
             IN  IF frozen(i1[client])
                 THEN [ledger |-> Ledger(i1, l.transactions), res |-> "Ok"]
                 ELSE IF settle_status(trans.status)
                 THEN IF swallowed(r.res)
                      THEN [ledger |-> Ledger(i1, l.transactions), res |-> "Ok"]
                      ELSE [ledger |-> Ledger(update_account(i1, r.acct),
                                              update_transaction(l.transactions,
                                                  [trans EXCEPT !.status = "Resolved"])),
                            res |-> "Ok"]
                 ELSE [ledger |-> Ledger(i1, l.transactions), res |-> "Ok"]

Accounts_resolve(l, client, tx) ==
    IF ~transaction_is_some(l.transactions, tx)
    THEN [ledger |-> l, res |-> "Ok"]
    ELSE LET trans == l.transactions[tx]
             i1 == account(l.inner, client)
             r  == Account_resolve(i1[client], trans.amount)
         IN  IF frozen(i1[client])
             THEN [ledger |-> Ledger(i1, l.transactions), res |-> "Ok"]
             ELSE IF settle_status(trans.status)
             THEN IF swallowed(r.res)
                  THEN [ledger |-> Ledger(i1, l.transactions), res |-> "Ok"]
                  ELSE [ledger |-> Ledger(update_account(i1, r.acct),
                                          update_transaction(l.transactions,
                                              [trans EXCEPT !.status = "Resolved"])),
                        res |-> "Ok"]
             ELSE [ledger |-> Ledger(update_account(i1, i1[client]), l.transactions),
                   res |-> "Ok"]

\* Accounts_chargeback without the early return on a frozen account.
Accounts_chargeback_ignores_freeze(l, client, tx) ==
    IF ~transaction_is_some(l.transactions, tx)
    THEN [ledger |-> l, res |-> "Ok"]
    ELSE LET trans == l.transactions[tx]
             i1 == account(l.inner, client)
             r  == Account_chargeback(i1[client], trans.amount)
         IN  IF settle_status(trans.status)
             THEN IF swallowed(r.res)
                  THEN [ledger |-> Ledger(i1, l.transactions), res |-> "Ok"]
                  ELSE [ledger |-> Ledger(update_account(i1, r.acct),
                                          update_transaction(l.transactions,
                                              [trans EXCEPT !.status = "Chargeback"])),
                        res |-> "Ok"]
             ELSE [ledger |-> Ledger(update_account(i1, i1[client]), l.transactions),
                   res |-> "Ok"]

Accounts_chargeback(l, client, tx) ==
    IF ~transaction_is_some(l.transactions, tx)
    THEN [ledger |-> l, res |-> "Ok"]
    ELSE LET trans == l.transactions[tx]
             i1 == account(l.inner, client)
             r  == Account_chargeback(i1[client], trans.amount)
         IN  IF frozen(i1[client])
             THEN [ledger |-> Ledger(i1, l.transactions), res |-> "Ok"]
             ELSE IF settle_status(trans.status)
             THEN IF swallowed(r.res)
                  THEN [ledger |-> Ledger(i1, l.transactions), res |-> "Ok"]
                  ELSE [ledger |-> Ledger(update_account(i1, r.acct),
                                          update_transaction(l.transactions,
                                              [trans EXCEPT !.status = "Chargeback"])),
                        res |-> "Ok"]
             ELSE [ledger |-> Ledger(update_account(i1, i1[client]), l.transactions),
                   res |-> "Ok"]

\* -------------------------------------------------------------- Processor
\* Processor::process: one record, routed by its type.
process(l, ty, client, tx, amount) ==
    CASE ty = "Deposit" ->
           IF amount = None THEN [ledger |-> l, res |-> "InvalidData"]
           ELSE Accounts_deposit(l, client, amount[1], tx)
      [] ty = "Withdrawal" ->
           IF amount = None THEN [ledger |-> l, res |-> "InvalidData"]
           ELSE Accounts_withdraw(l, client, amount[1], tx)
      [] ty = "Dispute" -> Accounts_dispute(l, client, tx)
      [] ty = "Resolve" -> Accounts_resolve(l, client, tx)
      [] ty = "Chargeback" -> Accounts_chargeback(l, client, tx)

\* ------------------------------------------------------------------ state
InitLedger ==
    /\ inner = << >>
    /\ transactions = << >>
    /\ last = [ty |-> "Start", client |-> 0, tx |-> 0, amount |-> None, res |-> "Ok"]
    /\ prev = Ledger(<< >>, << >>)
    /\ owner = << >>
    /\ used = {}
    /\ steps = 0

\* Records drawn one at a time: no input is fixed in advance.
Init ==
    /\ InitLedger
    /\ input = << >>
    /\ pc = "loop"
    /\ written = << >>

\* One record through Processor::process, with the history kept alongside.
Process(ty, client, tx, amount) ==
    LET l == Ledger(inner, transactions)
        r == process(l, ty, client, tx, amount)
    IN  /\ steps' = steps + 1
        /\ inner' = r.ledger.inner
        /\ transactions' = r.ledger.transactions
        /\ last' = [ty |-> ty, client |-> client, tx |-> tx, amount |-> amount,
                    res |-> r.res]
        /\ prev' = l
        /\ owner' = IF tx \in DOMAIN r.ledger.transactions /\ tx \notin DOMAIN transactions
                    THEN owner @@ (tx :> client) ELSE owner
        /\ used' = IF last.ty \in {"Deposit", "Withdrawal"} /\ last.amount # None
                   THEN used \cup {last.tx} ELSE used

\* A run has at most MaxEvents records.
MoreRecords == steps < MaxEvents

Deposit ==
    \E c \in Clients, t \in TxIds, a \in Amounts :
        /\ MoreRecords
        /\ Process("Deposit", c, t, Some(a))
        /\ UNCHANGED startVars
Withdrawal ==
    \E c \in Clients, t \in TxIds, a \in Amounts :
        /\ MoreRecords
        /\ Process("Withdrawal", c, t, Some(a))
        /\ UNCHANGED startVars
MissingAmount ==
    \E c \in Clients, t \in TxIds, ty \in {"Deposit", "Withdrawal"} :
        /\ MoreRecords
        /\ Process(ty, c, t, None)
        /\ UNCHANGED startVars
Dispute ==
    \E c \in Clients, t \in TxIds :
        /\ MoreRecords
        /\ Process("Dispute", c, t, None)
        /\ UNCHANGED startVars
Resolve ==
    \E c \in Clients, t \in TxIds :
        /\ MoreRecords
        /\ Process("Resolve", c, t, None)
        /\ UNCHANGED startVars
Chargeback ==
    \E c \in Clients, t \in TxIds :
        /\ MoreRecords
        /\ Process("Chargeback", c, t, None)
        /\ UNCHANGED startVars

Next == Deposit \/ Withdrawal \/ MissingAmount \/ Dispute \/ Resolve \/ Chargeback

Spec == Init /\ [][Next]_vars

\* The runs in which every amount is non-negative, as a record source that
\* validated the sign would deliver them.
ValidatedDeposit ==
    \E c \in Clients, t \in TxIds, a \in NonNegativeAmounts :
        /\ MoreRecords
        /\ Process("Deposit", c, t, Some(a))
        /\ UNCHANGED startVars
ValidatedWithdrawal ==
    \E c \in Clients, t \in TxIds, a \in NonNegativeAmounts :
        /\ MoreRecords
        /\ Process("Withdrawal", c, t, Some(a))
        /\ UNCHANGED startVars

NextValidated ==
    ValidatedDeposit \/ ValidatedWithdrawal \/ MissingAmount \/ Dispute \/ Resolve
        \/ Chargeback

SpecValidated == Init /\ [][NextValidated]_vars

\* The runs in which, besides, every Dispute, Resolve or Chargeback of a
\* recorded transaction names the client whose event recorded it.
NamesOwner(c, t) == t \in DOMAIN transactions => c = owner[t]
OwnedDispute ==
    \E c \in Clients, t \in TxIds :
        /\ MoreRecords
        /\ NamesOwner(c, t)
        /\ Process("Dispute", c, t, None)
        /\ UNCHANGED startVars
OwnedResolve ==
    \E c \in Clients, t \in TxIds :
        /\ MoreRecords
        /\ NamesOwner(c, t)
        /\ Process("Resolve", c, t, None)
        /\ UNCHANGED startVars
OwnedChargeback ==
    \E c \in Clients, t \in TxIds :
        /\ MoreRecords
        /\ NamesOwner(c, t)
        /\ Process("Chargeback", c, t, None)
        /\ UNCHANGED startVars

NextOwned ==
    ValidatedDeposit \/ ValidatedWithdrawal \/ MissingAmount \/ OwnedDispute
        \/ OwnedResolve \/ OwnedChargeback

SpecOwned == Init /\ [][NextOwned]_vars

\* -------------------------------------------------------- Processor::start
\* A record as the reader yields it.
Record(ty, client, tx, amount) == [ty |-> ty, client |-> client, tx |-> tx, amount |-> amount]

\* The records the inputs of a whole run are made of: enough for each error
\* (InvalidData, InsufficientFunds, Overflow, TxExists) and for a success.
InputRecords ==
    { Record("Deposit", 1, 1, Some(DecimalMax)),
      Record("Deposit", 1, 2, Some(1)),
      Record("Withdrawal", 1, 2, Some(1)),
      Record("Deposit", 1, 1, None),
      Record("Dispute", 1, 1, None) }
MaxInput == MaxEvents + 1
Inputs == UNION { [1..n -> InputRecords] : n \in 0..MaxInput }

InitStart ==
    /\ InitLedger
    /\ input \in Inputs
    /\ pc = "loop"
    /\ written = << >>

\* `if let Err(e) = self.process(record) { log::error!(..) }`: whatever process
\* returned, the loop goes on.
start_stops_on_error(res) == res = "Ok"

start_continues(res) == TRUE

\* One turn of `for record in self.reader.read()?`.
StartRecord ==
    /\ pc = "loop"
    /\ steps < Len(input)
    /\ LET record == input[steps + 1]
       IN  Process(record.ty, record.client, record.tx, record.amount)
    /\ pc' = IF start_continues(last'.res) THEN "loop" ELSE "return"
    /\ UNCHANGED << input, written >>

\* The records are used up: self.writer.write(self.accounts.accounts()).
StartWrite ==
    /\ pc = "loop"
    /\ steps = Len(input)
    /\ written' = Append(written, inner)
    /\ pc' = "done"
    /\ UNCHANGED << inner, transactions, last, prev, owner, used, steps, input >>

NextStart == StartRecord \/ StartWrite

\* start is one sequential loop: nothing makes it wait.
SpecStart == InitStart /\ [][NextStart]_vars /\ WF_vars(NextStart)

\* ------------------------------------------- runs that freeze an account
\* Every record the reader can yield.
Records ==
    { Record(ty, c, t, Some(a)) :
        ty \in {"Deposit", "Withdrawal"}, c \in Clients, t \in TxIds, a \in Amounts }
    \cup { Record(ty, c, t, None) :
        ty \in {"Deposit", "Withdrawal", "Dispute", "Resolve", "Chargeback"},
        c \in Clients, t \in TxIds }

\* Inputs that begin with two deposits of client 1, the dispute of both and
\* the chargeback of the first: the account is frozen while the second
\* transaction is Pending (when the amounts let every step succeed).
FreezingInputs ==
    { << Record("Deposit", 1, 1, Some(a)), Record("Deposit", 1, 2, Some(b)),
         Record("Dispute", 1, 1, None), Record("Dispute", 1, 2, None),
         Record("Chargeback", 1, 1, None) >> : a \in Amounts, b \in Amounts }
\* The number of records that follow, each any record.
MaxTail == MaxEvents - 3

InitFrozen ==
    /\ InitLedger
    /\ input \in FreezingInputs
    /\ pc = "loop"
    /\ written = << >>

\* One more turn of the loop of Processor::start, after the records of input.
TailRecord ==
    /\ pc = "loop"
    /\ steps >= Len(input)
    /\ steps < Len(input) + MaxTail
    /\ \E record \in Records :
          Process(record.ty, record.client, record.tx, record.amount)
    /\ UNCHANGED startVars

NextFrozen == StartRecord \/ TailRecord

SpecFrozen == InitFrozen /\ [][NextFrozen]_vars

\* ----------------------------------------------------------------- claims
\* What the claims speak of: the record processed last, the ledger before it
\* (prev) and the ledger after it (inner, transactions).
IsLedgerEvent ==
    \/ last.ty \in {"Deposit", "Withdrawal"} /\ last.amount # None
    \/ last.ty \in {"Dispute", "Resolve", "Chargeback"}
IsDepositOrWithdrawal == last.ty \in {"Deposit", "Withdrawal"} /\ last.amount # None
IsReference == last.ty \in {"Dispute", "Resolve", "Chargeback"}
TxWasKnown == last.tx \in DOMAIN prev.transactions
\* The account of client c in the map i; a client without an account has the
\* balances of a new one.
Bal(i, c) == IF c \in DOMAIN i THEN i[c] ELSE Account_new(c)
BalancesUnchanged == \A c \in Clients : Bal(inner, c) = Bal(prev.inner, c)
LedgerUnchanged == inner = prev.inner /\ transactions = prev.transactions
\* The account the last record named, as its handler fetched it.
Fetched == Bal(prev.inner, last.client)

\* C1: every account stored in the ledger has total = available + held, after
\* any sequence of events.
C1_TotalIsAvailablePlusHeld ==
    \A c \in DOMAIN inner : inner[c].total = inner[c].available + inner[c].held

\* C2: every account has available >= 0 and held >= 0, and an event refused for
\* insufficient funds leaves the balances and the transactions unchanged.
C2_BalancesNonNegative ==
    /\ \A c \in DOMAIN inner : inner[c].available >= 0 /\ inner[c].held >= 0
    /\ last.res = "InsufficientFunds" =>
           BalancesUnchanged /\ transactions = prev.transactions

\* The last event reached its Account call, and that call overflowed.
ArithmeticOverflowed ==
    /\ IsLedgerEvent
    /\ ~frozen(Fetched)
    /\ CASE last.ty = "Deposit" ->
              ~TxWasKnown /\ Account_deposit(Fetched, last.amount[1]).res = "Overflow"
         [] last.ty = "Withdrawal" ->
              ~TxWasKnown /\ Account_withdraw(Fetched, last.amount[1]).res = "Overflow"
         [] last.ty = "Dispute" ->
              /\ TxWasKnown
              /\ prev.transactions[last.tx].status = "Open"
              /\ Account_dispute(Fetched, prev.transactions[last.tx].amount).res = "Overflow"
         [] last.ty = "Resolve" ->
              /\ TxWasKnown
              /\ prev.transactions[last.tx].status = "Pending"
              /\ Account_resolve(Fetched, prev.transactions[last.tx].amount).res = "Overflow"
         [] last.ty = "Chargeback" ->
              /\ TxWasKnown
              /\ prev.transactions[last.tx].status = "Pending"
              /\ Account_chargeback(Fetched, prev.transactions[last.tx].amount).res
                     = "Overflow"

\* C3: an event one of whose checked arithmetic steps overflows returns
\* Overflow and leaves every balance, frozen flag and transaction status as it
\* was.
C3_OverflowPropagatedAndAtomic ==
    ArithmeticOverflowed =>
        /\ last.res = "Overflow"
        /\ BalancesUnchanged
        /\ transactions = prev.transactions

\* C4: a Dispute, Resolve or Chargeback that changes anything changes the
\* account of the client whose Deposit/Withdrawal recorded the transaction, and
\* changes or creates no other client's account.
C4_ReferenceActsOnOwner ==
    (IsReference /\ ~LedgerUnchanged) =>
        /\ last.tx \in DOMAIN owner
        /\ \A c \in Clients \ {owner[last.tx]} :
              /\ c \in DOMAIN inner <=> c \in DOMAIN prev.inner
              /\ Bal(inner, c) = Bal(prev.inner, c)

\* C5 as stated: a Deposit or Withdrawal whose transaction id was used by an
\* earlier Deposit or Withdrawal event of the run is rejected with TxExists.
C5_UsedIdRejected ==
    (IsDepositOrWithdrawal /\ last.tx \in used) => last.res = "TxExists"

\* C5 as amended: a Deposit or Withdrawal is rejected with TxExists exactly when
\* an earlier Deposit or Withdrawal, of whatever client, recorded its
\* transaction id; an id used only by events that failed or that a frozen
\* account absorbed is still free.
C5_RecordedIdRejected ==
    IsDepositOrWithdrawal =>
        /\ last.res = "TxExists" <=> last.tx \in DOMAIN owner /\ TxWasKnown
        /\ (last.tx \in used /\ ~TxWasKnown) => last.res # "TxExists"

\* A Deposit was refused because another client's event had recorded its id.
C5_Witness ==
    /\ last.ty = "Deposit" /\ last.amount # None
    /\ last.res = "TxExists"
    /\ last.tx \in used
    /\ owner[last.tx] # last.client

\* C6: a Deposit or Withdrawal whose transaction id is in the transaction table
\* returns TxExists and leaves the accounts (their fields and which accounts
\* exist) and the recorded transactions unchanged.
C6_DuplicateIdChangesNothing ==
    (IsDepositOrWithdrawal /\ TxWasKnown) =>
        /\ last.res = "TxExists"
        /\ inner = prev.inner
        /\ transactions = prev.transactions

\* A Withdrawal that its account could have paid, of a client without an
\* account so far or with one, was refused for its transaction id.
C6_Witness ==
    /\ last.ty = "Withdrawal" /\ last.amount # None
    /\ TxWasKnown
    /\ last.amount[1] > 0
    /\ Fetched.available >= last.amount[1]
    /\ ~frozen(Fetched)

\* The account the last record named was frozen when the record arrived.
WasFrozen == last.client \in DOMAIN prev.inner /\ frozen(prev.inner[last.client])
IsAbsorbedKind ==
    IsDepositOrWithdrawal \/ last.ty = "Dispute"

\* C7 as stated: every Deposit, Withdrawal or Dispute naming a frozen account
\* returns success and leaves the account's available, held and total unchanged.
C7_FrozenAbsorbsWithoutError ==
    (WasFrozen /\ IsAbsorbedKind) =>
        /\ last.res = "Ok"
        /\ inner[last.client] = prev.inner[last.client]

\* C7 as amended: every Deposit, Withdrawal or Dispute naming a frozen account
\* leaves the account unchanged; it returns success, except that a Deposit or
\* Withdrawal whose transaction id is already recorded returns TxExists.
C7_FrozenAbsorbs ==
    (WasFrozen /\ IsAbsorbedKind) =>
        /\ inner[last.client] = prev.inner[last.client]
        /\ last.res = IF IsDepositOrWithdrawal /\ TxWasKnown THEN "TxExists" ELSE "Ok"

\* A frozen account absorbed a Deposit of a positive amount under a new id.
C7_Witness ==
    /\ WasFrozen
    /\ last.ty = "Deposit" /\ last.amount # None
    /\ last.amount[1] > 0
    /\ ~TxWasKnown
    /\ last.res = "Ok"

\* The last record is a Dispute of a recorded transaction that is not Open, or
\* a Resolve or Chargeback of a recorded transaction that is not Pending.
StatusGuardFails ==
    /\ TxWasKnown
    /\ \/ last.ty = "Dispute" /\ prev.transactions[last.tx].status # "Open"
       \/ last.ty \in {"Resolve", "Chargeback"}
            /\ prev.transactions[last.tx].status # "Pending"

\* C8: such an event returns success and leaves all balances, all frozen flags
\* and all transaction statuses unchanged.
C8_StatusGuards ==
    StatusGuardFails =>
        /\ last.res = "Ok"
        /\ BalancesUnchanged
        /\ transactions = prev.transactions

\* A Chargeback of an Open transaction of a positive amount named an account
\* that is not frozen.
C8_Witness ==
    /\ StatusGuardFails
    /\ last.ty = "Chargeback"
    /\ prev.transactions[last.tx].status = "Open"
    /\ prev.transactions[last.tx].amount > 0
    /\ ~frozen(Fetched)

\* The last record is a Dispute of a Resolved transaction, naming an account
\* that is not frozen and has the transaction's amount available.
RedisputeOfResolved ==
    /\ last.ty = "Dispute"
    /\ TxWasKnown
    /\ prev.transactions[last.tx].status = "Resolved"
    /\ ~frozen(Fetched)
    /\ Fetched.available >= prev.transactions[last.tx].amount

\* C9 as stated: such a Dispute moves the amount from available to held again
\* and sets the status back to Pending.
C9_ResolvedDisputedAgain ==
    RedisputeOfResolved =>
        /\ transactions[last.tx].status = "Pending"
        /\ inner[last.client].available
               = Fetched.available - prev.transactions[last.tx].amount
        /\ inner[last.client].held = Fetched.held + prev.transactions[last.tx].amount

\* C9 as amended: Resolved is terminal for disputes; such a Dispute leaves the
\* status Resolved and moves no funds.
C9_ResolvedStaysResolved ==
    RedisputeOfResolved =>
        /\ transactions[last.tx].status = "Resolved"
        /\ inner[last.client].available = Fetched.available
        /\ inner[last.client].held = Fetched.held
        /\ inner[last.client].total = Fetched.total

\* A Resolved transaction of a positive amount was disputed again by the client
\* that made it.
C9_Witness ==
    /\ RedisputeOfResolved
    /\ prev.transactions[last.tx].amount > 0
    /\ owner[last.tx] = last.client

\* C10: a Dispute, Resolve or Chargeback whose transaction id is not in the
\* transaction table returns success and changes nothing: no account is
\* created or modified and no transaction is recorded.
C10_UnknownTxIsNoOp ==
    (IsReference /\ ~TxWasKnown) =>
        /\ last.res = "Ok"
        /\ inner = prev.inner
        /\ transactions = prev.transactions

\* An unknown transaction was referenced by a client never seen before, while
\* the ledger held another client's account and transaction.
C10_Witness ==
    /\ IsReference /\ ~TxWasKnown
    /\ last.client \notin DOMAIN inner
    /\ inner # << >>
    /\ transactions # << >>

\* The last record is a Withdrawal of more than the named account has
\* available (a client without an account has nothing available).
WithdrawalExceeds ==
    /\ last.ty = "Withdrawal" /\ last.amount # None
    /\ last.amount[1] > Fetched.available

\* C11 as stated: a Withdrawal whose amount exceeds the available balance
\* returns InsufficientFunds and leaves available, held and total of every
\* account unchanged.
C11_ExceedingWithdrawalRefused ==
    WithdrawalExceeds =>
        /\ last.res = "InsufficientFunds"
        /\ BalancesUnchanged

\* C11 as amended: such a Withdrawal leaves every account's balances unchanged;
\* it returns InsufficientFunds when its transaction id is new and the account
\* is not frozen (Overflow instead when available - amount is not
\* representable), TxExists when the id is recorded, and success when the
\* account is frozen.
C11_ExceedingWithdrawalChangesNothing ==
    WithdrawalExceeds =>
        /\ BalancesUnchanged
        /\ transactions = prev.transactions
        /\ last.res = IF TxWasKnown THEN "TxExists"
                      ELSE IF frozen(Fetched) THEN "Ok"
                      ELSE IF ~Fits(Fetched.available - last.amount[1]) THEN "Overflow"
                      ELSE "InsufficientFunds"

\* A client never seen before was refused a Withdrawal for insufficient funds
\* while another client had funds.
C11_Witness ==
    /\ WithdrawalExceeds
    /\ last.res = "InsufficientFunds"
    /\ last.client \notin DOMAIN prev.inner
    /\ \E c \in DOMAIN prev.inner : prev.inner[c].available > 0

\* The result of the account step of the last record, a Dispute of an Open
\* transaction or a Resolve or Chargeback of a Pending one naming an account
\* that is not frozen; "None" when the record had no such step.
AccountStep ==
    IF ~(IsReference /\ TxWasKnown /\ ~frozen(Fetched)) THEN "None"
    ELSE LET trans == prev.transactions[last.tx]
         IN  IF last.ty = "Dispute" /\ trans.status = "Open"
             THEN Account_dispute(Fetched, trans.amount).res
             ELSE IF last.ty = "Resolve" /\ trans.status = "Pending"
             THEN Account_resolve(Fetched, trans.amount).res
             ELSE IF last.ty = "Chargeback" /\ trans.status = "Pending"
             THEN Account_chargeback(Fetched, trans.amount).res
             ELSE "None"

\* C12: when the account step of a Dispute, Resolve or Chargeback fails with
\* InsufficientFunds, the event returns success and the balances, the frozen
\* flags and the transactions (so the status, Open or Pending) are unchanged.
C12_InsufficientFundsSwallowed ==
    AccountStep = "InsufficientFunds" =>
        /\ last.res = "Ok"
        /\ BalancesUnchanged
        /\ transactions = prev.transactions

\* A client disputed its own Open deposit after having withdrawn the funds.
C12_Witness ==
    /\ AccountStep = "InsufficientFunds"
    /\ last.ty = "Dispute"
    /\ owner[last.tx] = last.client
    /\ \A t \in DOMAIN prev.transactions : prev.transactions[t].amount > 0

\* C13: an account that exists keeps existing, and a frozen flag that is true
\* stays true, whatever record follows (prev is the ledger one record
\* earlier, so this holds from each state to every later one).
C13_AccountsAndFreezePermanent ==
    \A c \in DOMAIN prev.inner :
        /\ c \in DOMAIN inner
        /\ frozen(prev.inner[c]) => frozen(inner[c])

\* A frozen account was named by a Resolve or Chargeback of a Pending
\* transaction, or by a Deposit under a new id, and is still frozen.
C13_Witness ==
    /\ WasFrozen
    /\ frozen(inner[last.client])
    /\ \/ last.ty \in {"Resolve", "Chargeback"} /\ TxWasKnown
            /\ prev.transactions[last.tx].status = "Pending"
       \/ last.ty = "Deposit" /\ last.amount # None /\ ~TxWasKnown

\* The change of status the last record made to transaction t is one the
\* lifecycle allows, made by the event kind that owns it.
AllowedTransition(t) ==
    LET old == prev.transactions[t].status
        new == transactions[t].status
    IN  \/ new = old
        \/ /\ last.tx = t
           /\ \/ old = "Open" /\ new = "Pending" /\ last.ty = "Dispute"
              \/ old = "Pending" /\ new = "Resolved" /\ last.ty = "Resolve"
              \/ old = "Pending" /\ new = "Chargeback" /\ last.ty = "Chargeback"

\* C14: a transaction record is created only by a successful Deposit or
\* Withdrawal, Open and with the event's amount; it is never removed and its
\* amount never changes; its status changes only Open -> Pending by Dispute,
\* Pending -> Resolved by Resolve, Pending -> Chargeback by Chargeback, and a
\* status of Chargeback never changes.
C14_TransactionLifecycle ==
    /\ \A t \in DOMAIN transactions \ DOMAIN prev.transactions :
          /\ IsDepositOrWithdrawal /\ last.res = "Ok" /\ last.tx = t
          /\ transactions[t] = [id |-> t, amount |-> last.amount[1], status |-> "Open"]
    /\ \A t \in DOMAIN prev.transactions :
          /\ t \in DOMAIN transactions
          /\ transactions[t].id = t
          /\ transactions[t].amount = prev.transactions[t].amount
          /\ AllowedTransition(t)
          /\ prev.transactions[t].status = "Chargeback" =>
                 transactions[t].status = "Chargeback"

\* A Pending transaction of a positive amount was charged back while the
\* ledger held another transaction, which stayed as it was.
C14_Witness ==
    /\ last.ty = "Chargeback" /\ TxWasKnown
    /\ prev.transactions[last.tx].status = "Pending"
    /\ transactions[last.tx].status = "Chargeback"
    /\ transactions[last.tx].amount > 0
    /\ \E t \in DOMAIN prev.transactions : t # last.tx /\ transactions[t] = prev.transactions[t]

\* C15 as stated: after any event that references client c, whether it
\* succeeds, is a no-op or fails, the ledger holds an account for c.
C15_AccountExistsAfterAnyEvent ==
    IsLedgerEvent => last.client \in DOMAIN inner

\* The last record got as far as fetching the account of its client: a Deposit
\* or Withdrawal under a new transaction id, or a Dispute, Resolve or
\* Chargeback of a recorded transaction.
FetchesAccount ==
    \/ IsDepositOrWithdrawal /\ ~TxWasKnown
    \/ IsReference /\ TxWasKnown

\* An account with nothing in it and not frozen.
ZeroAccount(c) ==
    [client |-> c, available |-> 0, held |-> 0, total |-> 0, locked |-> FALSE]
IsNewAccount(a, c) == a = ZeroAccount(c)

\* C15 as amended: after an event that fetches the account of client c the
\* ledger holds an account for c, whether the event then succeeds, is a no-op
\* or fails; an event that does not fetch it (a Deposit or Withdrawal rejected
\* with TxExists or InvalidData, a Dispute, Resolve or Chargeback of an unknown
\* transaction) creates no account. An account is created for the client of
\* the event only, with available = held = total = 0 and frozen = false, and
\* the event then acts on it.
C15_AccountExistsAfterFetch ==
    /\ FetchesAccount => last.client \in DOMAIN inner
    /\ ~FetchesAccount => inner = prev.inner
    /\ \A c \in DOMAIN inner \ DOMAIN prev.inner :
          /\ c = last.client
          /\ last.res # "Ok" => IsNewAccount(inner[c], c)
          /\ inner[c] = process(Ledger(prev.inner @@ (c :> ZeroAccount(c)),
                                       prev.transactions),
                                last.ty, c, last.tx, last.amount).ledger.inner[c]

\* A Withdrawal refused for insufficient funds created the account of a client
\* never seen before, all zero and not frozen.
C15_Witness ==
    /\ last.ty = "Withdrawal" /\ last.res = "InsufficientFunds"
    /\ last.client \notin DOMAIN prev.inner
    /\ last.client \in DOMAIN inner
    /\ IsNewAccount(inner[last.client], last.client)
    /\ prev.inner # << >>

\* The literal b is deserialized to the amount a.
Delivers(b, a) ==
    LET r == deserialize_amount(b)
    IN  r.ok /\ r.value # None /\ r.value[1] = a
\* The literal is non-negative and has at most MaxScale fractional digits
\* (trailing zeros not counted).
IsValidField(b) == ~(b.neg /\ b.mantissa > 0) /\ normalize(b).scale <= MaxScale

\* C16: every amount that reaches Accounts::deposit or Accounts::withdraw is
\* non-negative with at most 4 fractional digits: no literal that is negative
\* or has more than 4 fractional digits is deserialized to it.
C16_BoundaryValidation ==
    IsDepositOrWithdrawal =>
        \A b \in AmountFields : Delivers(b, last.amount[1]) => IsValidField(b)

\* The ledger after the records of s were applied one after the other to l,
\* whatever each of them returned.
RECURSIVE ApplyAll(_, _)
ApplyAll(l, s) ==
    IF s = << >> THEN l
    ELSE ApplyAll(process(l, Head(s).ty, Head(s).client, Head(s).tx, Head(s).amount).ledger,
                  Tail(s))
\* What the k-th record of the input returned.
ResultAt(k) ==
    process(ApplyAll(Ledger(<< >>, << >>), SubSeq(input, 1, k - 1)),
            input[k].ty, input[k].client, input[k].tx, input[k].amount).res
StartInOrder ==
    /\ steps <= Len(input)
    /\ Ledger(inner, transactions) = ApplyAll(Ledger(<< >>, << >>), SubSeq(input, 1, steps))
    /\ steps > 0 => /\ Record(last.ty, last.client, last.tx, last.amount) = input[steps]
                    /\ last.res = ResultAt(steps)
    /\ pc # "return"
StartWritesOnce ==
    /\ Len(written) <= 1
    /\ written # << >> <=> pc = "done"
    /\ pc = "done" => /\ steps = Len(input)
                      /\ written[1] = ApplyAll(Ledger(<< >>, << >>), input).inner

\* C17: for every finite input, Processor::start applies the records in input
\* order, goes on after a record that returned an error, and eventually
\* writes the accounts exactly once, after the last record.
C17_StartRunsToTheEnd ==
    /\ [](StartInOrder /\ StartWritesOnce)
    /\ <>(pc = "done")
\* The run is over and the accounts are written after an input in which each
\* of the four errors was returned and a record after an error was applied.
C17_Witness ==
    /\ pc = "done"
    /\ Len(written) = 1
    /\ \A e \in {"Overflow", "InsufficientFunds", "TxExists", "InvalidData"} :
          \E k \in 1..Len(input) : ResultAt(k) = e
    /\ \E k \in 2..Len(input) :
          /\ ResultAt(k - 1) # "Ok"
          /\ ResultAt(k) = "Ok"
          /\ input[k].ty = "Deposit"
    /\ written[1] # << >>

\* The amount of the transaction the last record referred to.
ReferredAmount == prev.transactions[last.tx].amount
\* The last record was a Dispute whose Account::dispute succeeded.
DisputeSucceeded == last.ty = "Dispute" /\ AccountStep = "Ok"
\* The last record was a Resolve whose Account::resolve succeeded.
ResolveSucceeded == last.ty = "Resolve" /\ AccountStep = "Ok"
\* The Resolve of the same transaction, put right after the last record.
ResolveNow == Accounts_resolve(Ledger(inner, transactions), last.client, last.tx)

\* C18: a successful Dispute of an Open transaction of amount a takes a from
\* available, adds a to held and leaves total (and the frozen flag) as it was;
\* a successful Resolve does the reverse; a successful Resolve of the same
\* transaction right after the Dispute gives back the account as it was before
\* the Dispute.
C18_DisputeResolveInverse ==
    /\ DisputeSucceeded =>
          /\ inner[last.client] =
                [Fetched EXCEPT !.available = @ - ReferredAmount, !.held = @ + ReferredAmount]
          /\ transactions[last.tx].status = "Pending"
          /\ Account_resolve(inner[last.client], ReferredAmount).res = "Ok" =>
                /\ ResolveNow.ledger.inner[last.client] = Fetched
                /\ ResolveNow.ledger.transactions[last.tx].status = "Resolved"
    /\ ResolveSucceeded =>
          /\ inner[last.client] =
                [Fetched EXCEPT !.available = @ + ReferredAmount, !.held = @ - ReferredAmount]
          /\ transactions[last.tx].status = "Resolved"
    /\ (DisputeSucceeded \/ ResolveSucceeded) =>
          \A c \in Clients \ {last.client} : Bal(inner, c) = Bal(prev.inner, c)
\* A client's Resolve of its own disputed deposit of a positive amount
\* succeeded, and the account has the balances of the deposit alone again.
C18_Witness ==
    /\ ResolveSucceeded
    /\ ReferredAmount > 0
    /\ owner[last.tx] = last.client
    /\ Fetched.held = ReferredAmount
    /\ inner[last.client].available = ReferredAmount
    /\ inner[last.client].held = 0
    /\ inner[last.client].total = ReferredAmount

\* The last record was a Chargeback whose Account::chargeback succeeded.
ChargebackSucceeded == last.ty = "Chargeback" /\ AccountStep = "Ok"

\* C19: a successful Chargeback of a Pending transaction of amount a takes a
\* from held and from total, leaves available as it was, sets the account's
\* frozen flag and sets the transaction's status to Chargeback, in one step;
\* no other account and no other transaction changes.
C19_ChargebackEffect ==
    ChargebackSucceeded =>
        /\ inner[last.client] =
              [Fetched EXCEPT !.held = @ - ReferredAmount, !.total = @ - ReferredAmount,
                              !.locked = TRUE]
        /\ frozen(inner[last.client])
        /\ transactions =
              [prev.transactions EXCEPT ![last.tx].status = "Chargeback"]
        /\ \A c \in Clients \ {last.client} : Bal(inner, c) = Bal(prev.inner, c)
\* A client's Chargeback of its own disputed deposit of a positive amount
\* succeeded on an account that also held available funds.
C19_Witness ==
    /\ ChargebackSucceeded
    /\ ReferredAmount > 0
    /\ owner[last.tx] = last.client
    /\ ~Fetched.locked
    /\ Fetched.available > 0
    /\ inner[last.client].available = Fetched.available
    /\ inner[last.client].held = 0
    /\ inner[last.client].locked

\* The calls of Account::deposit the last record made, each with the account
\* it was called on and the amount: the one of Accounts::deposit, and the one
\* of Account::resolve after its withdraw_held succeeded.
DepositCalls ==
    IF IsLedgerEvent /\ last.ty = "Deposit" /\ ~TxWasKnown /\ ~frozen(Fetched)
    THEN { [acct |-> Fetched, amount |-> last.amount[1]] }
    ELSE IF /\ last.ty = "Resolve" /\ TxWasKnown /\ ~frozen(Fetched)
            /\ prev.transactions[last.tx].status = "Pending"
            /\ Account_withdraw_held(Fetched, ReferredAmount).res = "Ok"
    THEN { [acct |-> Account_withdraw_held(Fetched, ReferredAmount).acct,
            amount |-> ReferredAmount] }
    ELSE {}

\* C20: Account::deposit is all-or-nothing: when the addition to available or
\* the addition to total overflows it fails with Overflow and leaves every
\* field of the account as it was, also when held > 0.
C20_DepositAllOrNothing ==
    \A call \in DepositCalls :
        LET r == Account_deposit(call.acct, call.amount)
        IN  /\ (~Fits(call.acct.available + call.amount)
                  \/ ~Fits(call.acct.total + call.amount)) => r.res = "Overflow"
            /\ r.res = "Overflow" => r.acct = call.acct

\* C21: a frozen account keeps its available, held and total (and its frozen
\* flag) under every event, and an event of any of the five kinds naming a
\* frozen client changes no transaction: a Resolve or Chargeback of a Pending
\* transaction leaves it Pending and the held funds held.
C21_FrozenBalancesFixed ==
    /\ \A c \in DOMAIN prev.inner :
          frozen(prev.inner[c]) => c \in DOMAIN inner /\ inner[c] = prev.inner[c]
    /\ WasFrozen => transactions = prev.transactions
\* A Resolve or Chargeback named the frozen client that owns the referred
\* transaction, which was Pending with its positive amount held, and is still;
\* every amount of the run was positive.
C21_Witness ==
    /\ WasFrozen
    /\ last.ty \in {"Resolve", "Chargeback"}
    /\ TxWasKnown
    /\ prev.transactions[last.tx].status = "Pending"
    /\ owner[last.tx] = last.client
    /\ ReferredAmount > 0
    /\ Fetched.held = ReferredAmount
    /\ transactions[last.tx].status = "Pending"
    /\ inner[last.client].held = ReferredAmount
    /\ \A t \in DOMAIN transactions : transactions[t].amount > 0

\* The transactions recorded by client c that are Pending.
PendingOf(c) ==
    { t \in DOMAIN transactions : owner[t] = c /\ transactions[t].status = "Pending" }
\* The sum of the amounts of the transactions of S.
RECURSIVE SumOfAmounts(_)
SumOfAmounts(S) ==
    IF S = {} THEN 0
    ELSE LET t == CHOOSE x \in S : TRUE
         IN  transactions[t].amount + SumOfAmounts(S \ {t})

\* C22: when all amounts are non-negative and every Dispute, Resolve and
\* Chargeback names the client that recorded the transaction, the held balance
\* of every account is the sum of the amounts of that client's Pending
\* transactions, in every reachable state.
C22_HeldIsSumOfPending ==
    \A c \in Clients : Bal(inner, c).held = SumOfAmounts(PendingOf(c))
\* A client has two transactions Pending, both of a positive amount, and
\* holds their sum, which is all of its total.
C22_Witness ==
    \E c \in DOMAIN inner :
        /\ Cardinality(PendingOf(c)) = 2
        /\ \A t \in PendingOf(c) : transactions[t].amount > 0
        /\ inner[c].held = SumOfAmounts(PendingOf(c))
        /\ inner[c].held = inner[c].total

====
